---- MODULE Spec2Model ----
(***************************************************************************)
(* Model of tv/lib/subprocessmanager.py: a SubprocessManager (supervisor)  *)
(* on the control thread (the eventloop), one SubprocessResponderThread    *)
(* per spawned worker, and inside every worker process the main thread of  *)
(* subprocess_main plus the _subprocess_pipe_thread.                       *)
(*                                                                         *)
(* Control-thread handlers are atomic with respect to each other (they run *)
(* on one thread); shutdown() is split at thread.join(timeout), the only   *)
(* place where the control thread waits for the other threads.             *)
(***************************************************************************)
EXTENDS Integers, Sequences, FiniteSets, TLC

\* ---------------------------------------------------------------- bounds
MaxProcs == 3      \* worker processes spawned over a run (start + restarts)
MaxEvents == 3     \* events from outside over a run: application calls of
                   \* start(), shutdown(), send_message(); environment
                   \* faults (a worker crash, a reader-thread error, a
                   \* failing setup, a raising on_startup or on_shutdown,
                   \* a handler method raising something that is no
                   \* StandardError)

Procs == 1 .. MaxProcs

\* self.process = None / self.thread = None
NoProc == 0

\* ------------------------------------------------------------- messages
StartupInfo == [kind |-> "StartupInfo", id |-> 0]
HandlerInfo == [kind |-> "HandlerInfo", id |-> 0]
StopSentinel == [kind |-> "None", id |-> 0]
SubprocessMessage(n) == [kind |-> "SubprocessMessage", id |-> n]
\* SubprocessError(report, soft_fail): sent for an exception in the worker
SubprocessError(n) ==
    [kind |-> "SubprocessError", id |-> n, soft_fail |-> TRUE]

VARIABLES
    is_running,     \* SubprocessManager.is_running
    process,        \* SubprocessManager.process (NoProc or a process id)
    thread,         \* SubprocessManager.thread (NoProc or the id of its process)
    ctl,            \* control thread: "idle", or "join" inside shutdown()
    idle,           \* the eventloop's FIFO of callbacks added with add_idle
    calls,          \* application calls made so far
    last,           \* the last application call and how it ended
    nproc,          \* processes spawned so far
    faults,         \* environment faults so far
    ps,             \* OS state of each process
    returncode,     \* Popen.returncode of each process handle
    stdin,          \* frames written to a worker's stdin and not yet read
    stdin_closed,   \* the supervisor closed its end of the worker's stdin
    stdout,         \* frames written to a worker's stdout and not yet read
    wpc,            \* position of the worker's main thread (subprocess_main)
    tpc,            \* position of the worker's _subprocess_pipe_thread
    queue,          \* the worker's Queue.Queue
    handled,        \* ids of the messages dispatched to handler.handle, in order
    raised,         \* ids of the messages whose handler method raised
    rpc,            \* position of the SubprocessResponderThread
    quit_type,      \* SubprocessResponderThread.quit_type
    delivered,      \* ids of the responses run by the responder, per worker
    n_on_startup,   \* calls of responder.on_startup
    n_on_shutdown,  \* calls of responder.on_shutdown
    n_on_restart,   \* calls of responder.on_restart
    restarted,      \* per process: restarts that replaced it
    term,           \* per process: its OS state when terminate() was issued
    crashed_managed,\* processes that died, stop sentinel unsent, while the
                    \* supervisor was running with them as its process
                    \* and not inside shutdown()
    called,         \* per worker: the handler methods subprocess_main has
                    \* called and its writes of None, in order
    ended,          \* per reader thread: what ended the loop of run()
    long_size,      \* struct.calcsize("L") of the platform
    wire,           \* the bytes in a pipe
    sent,           \* the objects _dump_obj has written to that pipe
    got,            \* what the _load_obj calls on that pipe have returned
    shut,           \* the writing end of that pipe is closed
    cut,            \* the writer went away in the middle of a frame
    taken,          \* bytes the _load_obj calls have read from that pipe
    lifecycle       \* the control thread's calls of responder.on_startup,
                    \* on_shutdown, on_restart and of send_quit, in order

sup == <<is_running, process, thread>>
responder == <<n_on_startup, n_on_shutdown, n_on_restart, delivered>>
worker == <<wpc, tpc, queue, handled, raised>>
reader == <<rpc, quit_type>>
framing == <<long_size, wire, sent, got, shut, cut, taken>>
vars == <<is_running, process, thread, ctl, idle, calls, last, nproc, faults,
          ps, returncode, stdin, stdin_closed, stdout, wpc, tpc, queue,
          handled, raised, rpc, quit_type, delivered, n_on_startup,
          n_on_shutdown, n_on_restart, restarted, term, crashed_managed,
          called, ended, long_size, wire, sent, got, shut, cut, taken,
          lifecycle>>

\* one more event from outside may happen
MayHappen == calls + faults < MaxEvents

\* SubprocessManager.__init__; no process exists yet
Init ==
    /\ is_running = FALSE
    /\ process = NoProc
    /\ thread = NoProc
    /\ ctl = "idle"
    /\ idle = <<>>
    /\ calls = 0
    /\ last = [op |-> "__init__", res |-> "ok"]
    /\ nproc = 0
    /\ faults = 0
    /\ ps = [p \in Procs |-> "unborn"]
    /\ returncode = [p \in Procs |-> "None"]
    /\ stdin = [p \in Procs |-> <<>>]
    /\ stdin_closed = [p \in Procs |-> FALSE]
    /\ stdout = [p \in Procs |-> <<>>]
    /\ wpc = [p \in Procs |-> "unborn"]
    /\ tpc = [p \in Procs |-> "unstarted"]
    /\ queue = [p \in Procs |-> <<>>]
    /\ handled = [p \in Procs |-> <<>>]
    /\ raised = [p \in Procs |-> {}]
    /\ rpc = [p \in Procs |-> "unborn"]
    /\ quit_type = [p \in Procs |-> "None"]
    /\ delivered = [p \in Procs |-> <<>>]
    /\ n_on_startup = 0
    /\ n_on_shutdown = 0
    /\ n_on_restart = 0
    /\ restarted = [p \in Procs |-> 0]
    /\ term = [p \in Procs |-> "none"]
    /\ crashed_managed = {}
    /\ called = [p \in Procs |-> <<>>]
    /\ ended = [p \in Procs |-> "None"]
    /\ long_size = 4
    /\ wire = <<>>
    /\ sent = <<>>
    /\ got = <<>>
    /\ shut = FALSE
    /\ cut = FALSE
    /\ taken = 0
    /\ lifecycle = <<>>

\* ------------------------------------------------------------ wire, pipes

\* The process behind a pipe is gone: a write to its stdin raises IOError.
BrokenPipe(p) == ps[p] \in {"exited", "crashed", "terminated"}

\* _dump_obj(obj, pipe) on the stdin of p; on IOError nothing is written
_dump_obj(pipes, p, obj) ==
    IF BrokenPipe(p) THEN pipes ELSE [pipes EXCEPT ![p] = Append(@, obj)]

\* send_message(msg) once is_running is known: the pipes afterwards
send_message(running, p, pipes, msg) ==
    IF ~running THEN pipes ELSE _dump_obj(pipes, p, msg)

\* send_message without its "subprocess not running" error
send_outcome_silent(running, p) ==
    IF running /\ BrokenPipe(p) THEN "IOError logged" ELSE "ok"

\* how send_message(msg) ends for its caller
send_outcome(running, p) ==
    IF ~running THEN "ValueError"
    ELSE IF BrokenPipe(p) THEN "IOError logged" ELSE "ok"

send_quit(running, p, pipes) == send_message(running, p, pipes, StopSentinel)

\* _send_startup_info sending the HandlerInfo first
_send_startup_info_swapped(running, p, pipes) ==
    send_message(running, p,
                 send_message(running, p, pipes, HandlerInfo), StartupInfo)

\* SubprocessManager._send_startup_info
_send_startup_info(running, p, pipes) ==
    send_message(running, p,
                 send_message(running, p, pipes, StartupInfo), HandlerInfo)

\* ------------------------------------------------- supervisor: lifecycle

\* SubprocessManager._start: spawn process nproc + 1, start its reader
\* thread, mark running, send the startup frames, call on_startup
_start ==
    LET p == nproc + 1 IN
    /\ nproc < MaxProcs
    /\ nproc' = p
    /\ process' = p
    /\ ps' = [ps EXCEPT ![p] = "alive"]
    /\ returncode' = [returncode EXCEPT ![p] = "None"]
    /\ wpc' = [wpc EXCEPT ![p] = "setup1"]
    /\ thread' = p
    /\ rpc' = [rpc EXCEPT ![p] = "reading"]
    /\ is_running' = TRUE
    /\ stdin' = _send_startup_info(TRUE, p, stdin)
    /\ n_on_startup' = n_on_startup + 1

\* the responder method _start calls at its end, for the process it spawns
_start_calls == <<[cb |-> "on_startup", proc |-> nproc + 1]>>

\* _cleanup_process forgetting to drop the thread
_cleanup_process_keeps_thread ==
    /\ thread' = thread
    /\ process' = NoProc
    /\ is_running' = FALSE

\* _cleanup_process forgetting to drop the process
_cleanup_process_keeps_process ==
    /\ thread' = NoProc
    /\ process' = process
    /\ is_running' = FALSE

\* SubprocessManager._cleanup_process
_cleanup_process ==
    /\ thread' = NoProc
    /\ process' = NoProc
    /\ is_running' = FALSE

\* _restart without the call of on_restart
_restart_unannounced ==
    /\ stdin_closed' = [stdin_closed EXCEPT ![process] = TRUE]
    /\ _start
    /\ lifecycle' = lifecycle \o _start_calls
    /\ UNCHANGED n_on_restart
    /\ restarted' = [restarted EXCEPT ![process] = @ + 1]

\* _restart without the close of the old stdin
_restart_keeps_stdin ==
    /\ UNCHANGED stdin_closed
    /\ _start
    /\ lifecycle' = (lifecycle \o _start_calls)
                        \o <<[cb |-> "on_restart", proc |-> nproc + 1]>>
    /\ n_on_restart' = n_on_restart + 1
    /\ restarted' = [restarted EXCEPT ![process] = @ + 1]

\* _restart calling on_restart before it starts the new process
_restart_announces_first ==
    /\ stdin_closed' = [stdin_closed EXCEPT ![process] = TRUE]
    /\ _start
    /\ lifecycle' = (lifecycle \o <<[cb |-> "on_restart", proc |-> nproc + 1]>>)
                        \o _start_calls
    /\ n_on_restart' = n_on_restart + 1
    /\ restarted' = [restarted EXCEPT ![process] = @ + 1]

\* SubprocessManager._restart: close the old stdin, _start, on_restart
_restart ==
    /\ stdin_closed' = [stdin_closed EXCEPT ![process] = TRUE]
    /\ _start
    /\ lifecycle' = (lifecycle \o _start_calls)
                        \o <<[cb |-> "on_restart", proc |-> nproc + 1]>>
    /\ n_on_restart' = n_on_restart + 1
    /\ restarted' = [restarted EXCEPT ![process] = @ + 1]

\* start() without the is_running guard
start_unguarded ==
    /\ _start
    /\ lifecycle' = lifecycle \o _start_calls
    /\ last' = [op |-> "start", res |-> "started"]

\* SubprocessManager.start()
start ==
    IF is_running
    THEN /\ last' = [op |-> "start", res |-> "noop"]
         /\ UNCHANGED <<sup, nproc, ps, returncode, wpc, rpc, stdin,
                        n_on_startup, lifecycle>>
    ELSE /\ _start
         /\ lifecycle' = lifecycle \o _start_calls
         /\ last' = [op |-> "start", res |-> "started"]

Start ==
    /\ ctl = "idle"
    /\ MayHappen
    /\ calls' = calls + 1
    /\ start
    /\ UNCHANGED <<ctl, idle, faults, stdin_closed, stdout, tpc, queue,
                   handled, raised, quit_type, delivered, n_on_shutdown,
                   n_on_restart, restarted, term,
                   crashed_managed,
                   called, ended, framing>>

\* What a proactive restart from send_message would do on a broken pipe
\* (the code leaves the restart to the reader thread's quit callback).
handle_restarting(msg) ==
    IF is_running /\ BrokenPipe(process)
    THEN /\ _restart
         /\ last' = [op |-> "send_message", res |-> "IOError logged"]
    ELSE /\ stdin' = send_message(is_running, process, stdin, msg)
         /\ last' = [op |-> "send_message",
                     res |-> send_outcome(is_running, process)]
         /\ UNCHANGED <<sup, nproc, ps, returncode, wpc, rpc, stdin_closed,
                        n_on_startup, n_on_restart, restarted, lifecycle>>

\* SubprocessManager.handle(msg): forward the message with send_message
handle(msg) ==
    /\ stdin' = send_message(is_running, process, stdin, msg)
    /\ last' = [op |-> "send_message",
                res |-> send_outcome(is_running, process)]
    /\ UNCHANGED <<sup, nproc, ps, returncode, wpc, rpc, stdin_closed,
                   n_on_startup, n_on_restart, restarted, lifecycle>>

\* the application sends a message
Send ==
    /\ ctl = "idle"
    /\ MayHappen
    /\ calls' = calls + 1
    /\ handle(SubprocessMessage(calls + 1))
    /\ UNCHANGED <<ctl, idle, faults, stdout, tpc, queue, handled,
                   raised, quit_type, delivered, n_on_shutdown, term,
                   crashed_managed,
                   called, ended, framing>>

\* what shutdown() calls before it waits for the thread: on_shutdown of
\* the responder, then send_quit
shutdown_calls == <<[cb |-> "on_shutdown", proc |-> process],
                    [cb |-> "send_quit", proc |-> process]>>

\* shutdown() without the is_running guard: on_shutdown runs, then
\* send_quit raises out of shutdown()
shutdown_unguarded ==
    IF ~is_running
    THEN /\ n_on_shutdown' = n_on_shutdown + 1
         /\ lifecycle' = lifecycle \o shutdown_calls
         /\ last' = [op |-> "shutdown", res |-> "ValueError"]
         /\ UNCHANGED <<ctl, stdin>>
    ELSE /\ n_on_shutdown' = n_on_shutdown + 1
         /\ lifecycle' = lifecycle \o shutdown_calls
         /\ stdin' = send_quit(is_running, process, stdin)
         /\ ctl' = "join"
         /\ last' = [op |-> "shutdown", res |-> "joining"]

\* SubprocessManager.shutdown() up to thread.join(timeout): the guard,
\* on_shutdown, send_quit
shutdown ==
    IF ~is_running
    THEN /\ last' = [op |-> "shutdown", res |-> "noop"]
         /\ UNCHANGED <<ctl, stdin, n_on_shutdown, lifecycle>>
    ELSE /\ n_on_shutdown' = n_on_shutdown + 1
         /\ lifecycle' = lifecycle \o shutdown_calls
         /\ stdin' = send_quit(is_running, process, stdin)
         /\ ctl' = "join"
         /\ last' = [op |-> "shutdown", res |-> "joining"]

Shutdown ==
    /\ ctl = "idle"
    /\ MayHappen
    /\ calls' = calls + 1
    /\ shutdown
    /\ UNCHANGED <<sup, idle, nproc, faults, ps, returncode, stdin_closed,
                   stdout, worker, reader, delivered, n_on_startup,
                   n_on_restart, restarted, term,
                   crashed_managed,
                   called, ended, framing>>

\* process.terminate(): the signal ends a process that is still alive
terminate(p) ==
    /\ term' = [term EXCEPT ![p] = ps[p]]
    /\ ps' = [ps EXCEPT ![p] = IF @ = "alive" THEN "terminated" ELSE @]

\* shutdown() from the return of thread.join(timeout): the thread has
\* finished or the timeout has expired; terminate unless returncode is set;
\* _cleanup_process
shutdown_finish ==
    /\ IF returncode[process] = "None"
       THEN terminate(process)
       ELSE UNCHANGED <<term, ps>>
    /\ _cleanup_process
    /\ last' = [op |-> "shutdown",
                res |-> IF rpc[thread] = "done" THEN "joined" ELSE "timeout"]

ShutdownFinish ==
    /\ ctl = "join"
    /\ ctl' = "idle"
    /\ shutdown_finish
    /\ UNCHANGED <<idle, calls, nproc, faults, returncode, stdin,
                   stdin_closed, stdout, worker, reader, responder,
                   restarted,
                   crashed_managed,
                   called, ended, framing, lifecycle>>

\* ----------------------------------------------- supervisor: eventloop

\* the eventloop runs the idle callback at the head of its queue: a
\* responder method added by SubprocessResponder.call_handler
HandleResponse ==
    /\ ctl = "idle"
    /\ idle # <<>>
    /\ Head(idle).cb = "handle"
    /\ idle' = Tail(idle)
    /\ delivered' = [delivered EXCEPT
                        ![Head(idle).from] = Append(@, Head(idle).msg.id)]
    /\ UNCHANGED <<sup, ctl, calls, last, nproc, faults, ps, returncode,
                   stdin, stdin_closed, stdout, worker, reader,
                   n_on_startup, n_on_shutdown, n_on_restart, restarted,
                   term,
                   crashed_managed,
                   called, ended, framing, lifecycle>>

\* _on_thread_quit taking a closed pipe for a clean exit
_on_thread_quit_lenient ==
    IF ~is_running
    THEN UNCHANGED <<sup, nproc, ps, returncode, wpc, rpc, stdin,
                     stdin_closed, n_on_startup, n_on_restart, restarted,
                     lifecycle>>
    ELSE IF quit_type[thread] \in {"normal", "closed-pipe"}
    THEN /\ _cleanup_process
         /\ UNCHANGED <<nproc, ps, returncode, wpc, rpc, stdin,
                        stdin_closed, n_on_startup, n_on_restart,
                        restarted, lifecycle>>
    ELSE _restart

\* SubprocessManager._on_thread_quit
_on_thread_quit ==
    IF ~is_running
    THEN UNCHANGED <<sup, nproc, ps, returncode, wpc, rpc, stdin,
                     stdin_closed, n_on_startup, n_on_restart, restarted,
                     lifecycle>>
    ELSE IF quit_type[thread] = "normal"
    THEN /\ _cleanup_process
         /\ UNCHANGED <<nproc, ps, returncode, wpc, rpc, stdin,
                        stdin_closed, n_on_startup, n_on_restart,
                        restarted, lifecycle>>
    ELSE _restart

\* the eventloop runs the quit callback added by a reader thread
OnThreadQuit ==
    /\ ctl = "idle"
    /\ idle # <<>>
    /\ Head(idle).cb = "quit"
    /\ idle' = Tail(idle)
    /\ _on_thread_quit
    /\ UNCHANGED <<ctl, calls, last, faults, stdout, tpc, queue, handled,
                   raised, quit_type, delivered, n_on_shutdown, term,
                   crashed_managed,
                   called, ended, framing>>

\* ------------------------------------------ supervisor: reader thread

\* _load_obj on a pipe: a frame is there, or the writer is gone (EOFError)
AtEOF(pipe, gone) == pipe = <<>> /\ gone

\* call_handler adding the responder method at the front of the queue
call_handler_front(p, msg) ==
    /\ idle' = <<[cb |-> "handle", from |-> p, msg |-> msg]>> \o idle
    /\ UNCHANGED delivered

\* call_handler calling the responder method where it stands, as
\* SubprocessHandler.call_handler does inside the worker
call_handler_direct(p, msg) ==
    /\ delivered' = [delivered EXCEPT ![p] = Append(@, msg.id)]
    /\ UNCHANGED idle

\* SubprocessResponder.call_handler, run by the reader thread of p: the
\* responder method is not called, it is added to the eventloop
call_handler(p, msg) ==
    /\ idle' = Append(idle, [cb |-> "handle", from |-> p, msg |-> msg])
    /\ UNCHANGED delivered

\* a run() that leaves quit_type alone when the pipe is closed
run_read_unset(p) ==
    IF AtEOF(stdout[p], BrokenPipe(p))
    THEN /\ ended' = [ended EXCEPT ![p] = "EOFError"]
         /\ rpc' = [rpc EXCEPT ![p] = "quit"]
         /\ UNCHANGED <<stdout, idle, delivered, quit_type>>
    ELSE /\ stdout[p] # <<>>
         /\ stdout' = [stdout EXCEPT ![p] = Tail(@)]
         /\ IF Head(stdout[p]) = StopSentinel
            THEN /\ quit_type' = [quit_type EXCEPT ![p] = "normal"]
                 /\ ended' = [ended EXCEPT ![p] = "None read"]
                 /\ rpc' = [rpc EXCEPT ![p] = "quit"]
                 /\ UNCHANGED <<idle, delivered>>
            ELSE /\ call_handler(p, Head(stdout[p]))
                 /\ UNCHANGED <<quit_type, rpc, ended>>

\* a run() that takes a closed pipe for the normal end
run_read_eof_normal(p) ==
    IF AtEOF(stdout[p], BrokenPipe(p))
    THEN /\ quit_type' = [quit_type EXCEPT ![p] = "normal"]
         /\ ended' = [ended EXCEPT ![p] = "EOFError"]
         /\ rpc' = [rpc EXCEPT ![p] = "quit"]
         /\ UNCHANGED <<stdout, idle, delivered>>
    ELSE /\ stdout[p] # <<>>
         /\ stdout' = [stdout EXCEPT ![p] = Tail(@)]
         /\ IF Head(stdout[p]) = StopSentinel
            THEN /\ quit_type' = [quit_type EXCEPT ![p] = "normal"]
                 /\ ended' = [ended EXCEPT ![p] = "None read"]
                 /\ rpc' = [rpc EXCEPT ![p] = "quit"]
                 /\ UNCHANGED <<idle, delivered>>
            ELSE /\ call_handler(p, Head(stdout[p]))
                 /\ UNCHANGED <<quit_type, rpc, ended>>

\* a run() whose loop skips None and reads on
run_read_past_none(p) ==
    IF AtEOF(stdout[p], BrokenPipe(p))
    THEN /\ quit_type' = [quit_type EXCEPT ![p] = "closed-pipe"]
         /\ ended' = [ended EXCEPT ![p] = "EOFError"]
         /\ rpc' = [rpc EXCEPT ![p] = "quit"]
         /\ UNCHANGED <<stdout, idle, delivered>>
    ELSE /\ stdout[p] # <<>>
         /\ stdout' = [stdout EXCEPT ![p] = Tail(@)]
         /\ IF Head(stdout[p]) = StopSentinel
            THEN UNCHANGED <<quit_type, ended, rpc, idle, delivered>>
            ELSE /\ call_handler(p, Head(stdout[p]))
                 /\ UNCHANGED <<quit_type, rpc, ended>>

\* SubprocessResponderThread.run, one turn of the loop over
\* _read_from_pipe: a response goes to responder.handle, which ends in
\* call_handler; None ends the loop with quit_type normal, EOFError with
\* closed-pipe
run_read(p) ==
    IF AtEOF(stdout[p], BrokenPipe(p))
    THEN /\ quit_type' = [quit_type EXCEPT ![p] = "closed-pipe"]
         /\ ended' = [ended EXCEPT ![p] = "EOFError"]
         /\ rpc' = [rpc EXCEPT ![p] = "quit"]
         /\ UNCHANGED <<stdout, idle, delivered>>
    ELSE /\ stdout[p] # <<>>
         /\ stdout' = [stdout EXCEPT ![p] = Tail(@)]
         /\ IF Head(stdout[p]) = StopSentinel
            THEN /\ quit_type' = [quit_type EXCEPT ![p] = "normal"]
                 /\ ended' = [ended EXCEPT ![p] = "None read"]
                 /\ rpc' = [rpc EXCEPT ![p] = "quit"]
                 /\ UNCHANGED <<idle, delivered>>
            ELSE /\ call_handler(p, Head(stdout[p]))
                 /\ UNCHANGED <<quit_type, rpc, ended>>

ReaderRead(p) ==
    /\ rpc[p] = "reading"
    /\ run_read(p)
    /\ UNCHANGED <<sup, ctl, calls, last, nproc, faults, ps, returncode,
                   stdin, stdin_closed, worker, n_on_startup, n_on_shutdown,
                   n_on_restart, restarted, term, crashed_managed,
                   called, framing, lifecycle>>

\* SubprocessResponderThread.run: the loop ends with an exception other
\* than EOFError, raised by the read or by responder.handle: a
\* StandardError gives read-error, any other Exception unknown
ReaderFault(p, exc) ==
    /\ rpc[p] = "reading"
    /\ MayHappen
    /\ faults' = faults + 1
    /\ quit_type' = [quit_type EXCEPT
                       ![p] = IF exc = "StandardError" THEN "read-error"
                                                       ELSE "unknown"]
    /\ ended' = [ended EXCEPT ![p] = exc]
    /\ rpc' = [rpc EXCEPT ![p] = "quit"]
    /\ UNCHANGED <<sup, ctl, idle, calls, last, nproc, ps, returncode,
                   stdin, stdin_closed, stdout, worker, responder,
                   restarted, term,
                   crashed_managed,
                   called, framing, lifecycle>>

\* SubprocessResponderThread.run: responder.handle(msg) raises for a
\* message the thread has read; the call is inside the same try as the
\* read, so the loop ends as for a failing read and msg is not queued
ReaderHandleFault(p, exc) ==
    /\ rpc[p] = "reading"
    /\ stdout[p] # <<>>
    /\ Head(stdout[p]) # StopSentinel
    /\ MayHappen
    /\ faults' = faults + 1
    /\ stdout' = [stdout EXCEPT ![p] = Tail(@)]
    /\ quit_type' = [quit_type EXCEPT
                       ![p] = IF exc = "StandardError" THEN "read-error"
                                                       ELSE "unknown"]
    /\ ended' = [ended EXCEPT ![p] = exc]
    /\ rpc' = [rpc EXCEPT ![p] = "quit"]
    /\ UNCHANGED <<sup, ctl, idle, calls, last, nproc, ps, returncode,
                   stdin, stdin_closed, worker, responder, restarted, term,
                   crashed_managed, called, framing, lifecycle>>

\* SubprocessResponderThread.run, last line: add the quit callback
ReaderNotify(p) ==
    /\ rpc[p] = "quit"
    /\ rpc' = [rpc EXCEPT ![p] = "done"]
    /\ idle' = Append(idle, [cb |-> "quit", from |-> p, msg |-> StopSentinel])
    /\ UNCHANGED <<sup, ctl, calls, last, nproc, faults, ps, returncode,
                   stdin, stdin_closed, stdout, worker, quit_type,
                   responder, restarted, term,
                   crashed_managed,
                   called, ended, framing, lifecycle>>

\* ------------------------------------------------------- worker process

\* _subprocess_setup without its isinstance checks: whatever frame it
\* reads is taken for the right one
_subprocess_setup_unchecked(p, fails) ==
    LET eof == AtEOF(stdin[p], stdin_closed[p]) IN
    /\ eof \/ stdin[p] # <<>>
    /\ IF ~eof /\ ~fails
       THEN /\ stdin' = [stdin EXCEPT ![p] = Tail(@)]
            /\ wpc' = [wpc EXCEPT ![p] =
                         IF wpc[p] = "setup1" THEN "setup2" ELSE "on_startup"]
            /\ tpc' = [tpc EXCEPT ![p] =
                         IF wpc[p] = "setup1" THEN @ ELSE "reading"]
            /\ UNCHANGED <<stdout, called>>
       ELSE /\ stdin' = [stdin EXCEPT ![p] = IF eof THEN @ ELSE Tail(@)]
            /\ stdout' = [stdout EXCEPT
                            ![p] = @ \o <<SubprocessError(0), StopSentinel>>]
            /\ called' = [called EXCEPT ![p] = Append(@, "None")]
            /\ wpc' = [wpc EXCEPT ![p] = "returned"]
            /\ UNCHANGED tpc

\* _subprocess_setup as called by subprocess_main, one _load_obj at a
\* time: read StartupInfo, then HandlerInfo, build the handler;
\* subprocess_main then starts the pipe thread.  Any exception (a wrong
\* frame, EOFError, a failing initialisation or constructor: fails) makes
\* subprocess_main send a SubprocessError, then None, and return.
_subprocess_setup(p, fails) ==
    LET want == IF wpc[p] = "setup1" THEN StartupInfo ELSE HandlerInfo
        eof == AtEOF(stdin[p], stdin_closed[p])
    IN
    /\ eof \/ stdin[p] # <<>>
    /\ IF ~eof /\ Head(stdin[p]) = want /\ ~fails
       THEN /\ stdin' = [stdin EXCEPT ![p] = Tail(@)]
            /\ wpc' = [wpc EXCEPT ![p] =
                         IF wpc[p] = "setup1" THEN "setup2" ELSE "on_startup"]
            /\ tpc' = [tpc EXCEPT ![p] =
                         IF wpc[p] = "setup1" THEN @ ELSE "reading"]
            /\ UNCHANGED <<stdout, called>>
       ELSE /\ stdin' = [stdin EXCEPT ![p] = IF eof THEN @ ELSE Tail(@)]
            /\ stdout' = [stdout EXCEPT
                            ![p] = @ \o <<SubprocessError(0), StopSentinel>>]
            /\ called' = [called EXCEPT ![p] = Append(@, "None")]
            /\ wpc' = [wpc EXCEPT ![p] = "returned"]
            /\ UNCHANGED tpc

WorkerSetup(p, fails) ==
    /\ ps[p] = "alive"
    /\ wpc[p] \in {"setup1", "setup2"}
    /\ fails => MayHappen
    /\ faults' = IF fails THEN faults + 1 ELSE faults
    /\ _subprocess_setup(p, fails)
    /\ UNCHANGED <<sup, ctl, idle, calls, last, nproc, ps,
                   returncode, stdin_closed, queue, handled, raised,
                   reader, responder, restarted, term,
                   crashed_managed,
                   ended, framing, lifecycle>>

\* subprocess_main: handler.on_startup(), called outside any try: when it
\* raises the main thread ends there
WorkerOnStartup(p, raises) ==
    /\ ps[p] = "alive"
    /\ wpc[p] = "on_startup"
    /\ raises => MayHappen
    /\ faults' = IF raises THEN faults + 1 ELSE faults
    /\ wpc' = [wpc EXCEPT ![p] = IF raises THEN "raised" ELSE "loop"]
    /\ called' = [called EXCEPT ![p] = Append(@, "on_startup")]
    /\ UNCHANGED <<sup, ctl, idle, calls, last, nproc, ps,
                   returncode, stdin, stdin_closed, stdout, tpc, queue,
                   handled, raised, reader, responder, restarted, term,
                   crashed_managed,
                   ended, framing, lifecycle>>

\* a queue that hands out the newest entry first
put_front(q, msg) == <<msg>> \o q

\* Queue.put
put(q, msg) == Append(q, msg)

\* a worker without a thread of its own for stdin: a frame is read only
\* when the main thread is waiting for one
_subprocess_pipe_thread_lockstep(p) ==
    /\ wpc[p] = "loop" /\ queue[p] = <<>>
    /\ IF AtEOF(stdin[p], stdin_closed[p])
       THEN /\ queue' = [queue EXCEPT ![p] = put(@, StopSentinel)]
            /\ tpc' = [tpc EXCEPT ![p] = "done"]
            /\ UNCHANGED stdin
       ELSE /\ stdin[p] # <<>>
            /\ stdin' = [stdin EXCEPT ![p] = Tail(@)]
            /\ queue' = [queue EXCEPT ![p] = put(@, Head(stdin[p]))]
            /\ tpc' = [tpc EXCEPT ![p] =
                         IF Head(stdin[p]) = StopSentinel THEN "done" ELSE @]

\* a pipe thread that ends without the None for the main thread
_subprocess_pipe_thread_silent(p) ==
    IF AtEOF(stdin[p], stdin_closed[p])
    THEN /\ tpc' = [tpc EXCEPT ![p] = "done"]
         /\ UNCHANGED <<stdin, queue>>
    ELSE /\ stdin[p] # <<>>
         /\ stdin' = [stdin EXCEPT ![p] = Tail(@)]
         /\ queue' = [queue EXCEPT ![p] =
                        IF Head(stdin[p]) = StopSentinel
                        THEN @ ELSE put(@, Head(stdin[p]))]
         /\ tpc' = [tpc EXCEPT ![p] =
                      IF Head(stdin[p]) = StopSentinel THEN "done" ELSE @]

\* _subprocess_pipe_thread, one turn: a message read from stdin is put on
\* the queue; on None or EOFError the thread puts None and ends
_subprocess_pipe_thread(p) ==
    IF AtEOF(stdin[p], stdin_closed[p])
    THEN /\ queue' = [queue EXCEPT ![p] = put(@, StopSentinel)]
         /\ tpc' = [tpc EXCEPT ![p] = "done"]
         /\ UNCHANGED stdin
    ELSE /\ stdin[p] # <<>>
         /\ stdin' = [stdin EXCEPT ![p] = Tail(@)]
         /\ queue' = [queue EXCEPT ![p] = put(@, Head(stdin[p]))]
         /\ tpc' = [tpc EXCEPT ![p] =
                      IF Head(stdin[p]) = StopSentinel THEN "done" ELSE @]

PipeThread(p) ==
    /\ ps[p] = "alive"
    /\ tpc[p] = "reading"
    /\ _subprocess_pipe_thread(p)
    /\ UNCHANGED <<sup, ctl, idle, calls, last, nproc, faults, ps,
                   returncode, stdin_closed, stdout, wpc, handled, raised,
                   reader,
                   responder, restarted, term,
                   crashed_managed,
                   called, ended, framing, lifecycle>>

\* _subprocess_pipe_thread when the read raises something else than
\* EOFError (a failing read, a frame that does not decode): a
\* StandardError is swallowed by the except clause and None is put on
\* the queue; any other exception ends the thread before queue.put(None)
_subprocess_pipe_thread_except(p, exc) ==
    /\ queue' = [queue EXCEPT ![p] = IF exc = "StandardError"
                                     THEN put(@, StopSentinel) ELSE @]
    /\ tpc' = [tpc EXCEPT ![p] = IF exc = "StandardError"
                                 THEN "done" ELSE "raised"]

PipeThreadFault(p, exc) ==
    /\ ps[p] = "alive"
    /\ tpc[p] = "reading"
    /\ MayHappen
    /\ faults' = faults + 1
    /\ _subprocess_pipe_thread_except(p, exc)
    /\ UNCHANGED <<sup, ctl, idle, calls, last, nproc, ps, returncode, stdin,
                   stdin_closed, stdout, wpc, handled, raised, reader,
                   responder, restarted, term, crashed_managed,
                   called, ended, framing, lifecycle>>

\* how a handler method can end: it returns, or raises a StandardError,
\* or raises an exception that is no StandardError (in Python 2 every
\* class derived from Exception directly)
Outcomes == {"returns", "StandardError", "Exception"}

\* a main loop that takes the newest entry of the queue
main_loop_newest(p, outcome) ==
    LET msg == queue[p][Len(queue[p])] IN
    /\ queue[p] # <<>>
    /\ queue' = [queue EXCEPT ![p] = SubSeq(@, 1, Len(@) - 1)]
    /\ IF msg = StopSentinel
       THEN /\ wpc' = [wpc EXCEPT ![p] = "on_shutdown"]
            /\ UNCHANGED <<handled, raised, stdout, called>>
       ELSE /\ handled' = [handled EXCEPT ![p] = Append(@, msg.id)]
            /\ called' = [called EXCEPT ![p] = Append(@, "handle")]
            /\ raised' = [raised EXCEPT
                            ![p] = IF outcome = "returns"
                                   THEN @ ELSE @ \cup {msg.id}]
            /\ stdout' = [stdout EXCEPT ![p] =
                            IF outcome = "StandardError"
                            THEN Append(@, SubprocessError(msg.id)) ELSE @]
            /\ wpc' = [wpc EXCEPT
                         ![p] = IF outcome = "Exception" THEN "raised" ELSE @]

\* subprocess_main, one turn of the message loop: queue.get(), then break
\* on None or handler.handle(msg).  SubprocessHandler.call_handler catches
\* a StandardError of the method and sends a SubprocessError (soft_fail is
\* left at True), and the loop goes on; any other exception leaves
\* call_handler, handle and subprocess_main: the main thread ends there.
main_loop(p, outcome) ==
    LET msg == Head(queue[p]) IN
    /\ queue[p] # <<>>
    /\ queue' = [queue EXCEPT ![p] = Tail(@)]
    /\ IF msg = StopSentinel
       THEN /\ wpc' = [wpc EXCEPT ![p] = "on_shutdown"]
            /\ UNCHANGED <<handled, raised, stdout, called>>
       ELSE /\ handled' = [handled EXCEPT ![p] = Append(@, msg.id)]
            /\ called' = [called EXCEPT ![p] = Append(@, "handle")]
            /\ raised' = [raised EXCEPT
                            ![p] = IF outcome = "returns"
                                   THEN @ ELSE @ \cup {msg.id}]
            /\ stdout' = [stdout EXCEPT ![p] =
                            IF outcome = "StandardError"
                            THEN Append(@, SubprocessError(msg.id)) ELSE @]
            /\ wpc' = [wpc EXCEPT
                         ![p] = IF outcome = "Exception" THEN "raised" ELSE @]

WorkerLoop(p, outcome) ==
    /\ ps[p] = "alive"
    /\ wpc[p] = "loop"
    /\ queue[p] # <<>>
    /\ outcome = "Exception" => MayHappen /\ Head(queue[p]) # StopSentinel
    /\ faults' = IF outcome = "Exception" THEN faults + 1 ELSE faults
    /\ main_loop(p, outcome)
    /\ UNCHANGED <<sup, ctl, idle, calls, last, nproc, ps,
                   returncode, stdin, stdin_closed, tpc, reader, responder,
                   restarted, term,
                   crashed_managed,
                   ended, framing, lifecycle>>

\* subprocess_main writing its None before it calls on_shutdown
WorkerOnShutdown_early(p, raises) ==
    /\ ps[p] = "alive"
    /\ wpc[p] = "on_shutdown"
    /\ raises => MayHappen
    /\ faults' = IF raises THEN faults + 1 ELSE faults
    /\ wpc' = [wpc EXCEPT ![p] = IF raises THEN "raised" ELSE "returned"]
    /\ stdout' = [stdout EXCEPT ![p] = Append(@, StopSentinel)]
    /\ called' = [called EXCEPT ![p] = @ \o <<"None", "on_shutdown">>]
    /\ UNCHANGED <<sup, ctl, idle, calls, last, nproc, ps,
                   returncode, stdin, stdin_closed, tpc, queue, handled,
                   raised, reader, responder, restarted, term,
                   crashed_managed, ended, framing, lifecycle>>

\* subprocess_main: handler.on_shutdown(), then None on stdout, return;
\* on_shutdown() is called outside any try: when it raises the main thread
\* ends before the None
WorkerOnShutdown(p, raises) ==
    /\ ps[p] = "alive"
    /\ wpc[p] = "on_shutdown"
    /\ raises => MayHappen
    /\ faults' = IF raises THEN faults + 1 ELSE faults
    /\ wpc' = [wpc EXCEPT ![p] = IF raises THEN "raised" ELSE "returned"]
    /\ stdout' = [stdout EXCEPT
                    ![p] = IF raises THEN @ ELSE Append(@, StopSentinel)]
    /\ called' = [called EXCEPT
                    ![p] = @ \o (IF raises THEN <<"on_shutdown">>
                                           ELSE <<"on_shutdown", "None">>)]
    /\ UNCHANGED <<sup, ctl, idle, calls, last, nproc, ps,
                   returncode, stdin, stdin_closed, tpc, queue, handled,
                   raised, reader, responder, restarted, term,
                   crashed_managed,
                   ended, framing, lifecycle>>

\* a handler method called by subprocess_main (on_startup, the method
\* handle dispatches to, on_shutdown) never returns: the main thread stays
\* inside the call
WorkerStuck(p) ==
    /\ ps[p] = "alive"
    /\ wpc[p] \in {"on_startup", "loop", "on_shutdown"}
    /\ wpc[p] = "loop" => queue[p] # <<>> /\ Head(queue[p]) # StopSentinel
    /\ MayHappen
    /\ faults' = faults + 1
    /\ wpc' = [wpc EXCEPT ![p] = "stuck"]
    /\ queue' = [queue EXCEPT ![p] = IF wpc[p] = "loop" THEN Tail(@) ELSE @]
    /\ handled' = [handled EXCEPT
                     ![p] = IF wpc[p] = "loop"
                            THEN Append(@, Head(queue[p]).id) ELSE @]
    /\ called' = [called EXCEPT
                    ![p] = Append(@, IF wpc[p] = "loop" THEN "handle"
                                                       ELSE wpc[p])]
    /\ UNCHANGED <<sup, ctl, idle, calls, last, nproc, ps, returncode, stdin,
                   stdin_closed, stdout, tpc, raised, reader, responder,
                   restarted, term, crashed_managed, ended, framing, lifecycle>>

\* the process ends once its main thread is over (subprocess_main returned
\* or ended with an exception) and its non-daemon pipe thread is over
\* (it returned or ended with an exception)
WorkerExit(p) ==
    /\ ps[p] = "alive"
    /\ wpc[p] \in {"returned", "raised"}
    /\ tpc[p] \in {"unstarted", "done", "raised"}
    /\ ps' = [ps EXCEPT ![p] = "exited"]
    /\ UNCHANGED <<sup, ctl, idle, calls, last, nproc, faults, returncode,
                   stdin, stdin_closed, stdout, worker, reader, responder,
                   restarted, term,
                   crashed_managed,
                   called, ended, framing, lifecycle>>

\* the worker process dies at any point (a crash, a kill from outside)
WorkerCrash(p) ==
    /\ ps[p] = "alive"
    /\ MayHappen
    /\ faults' = faults + 1
    /\ ps' = [ps EXCEPT ![p] = "crashed"]
    /\ crashed_managed' =
          IF is_running /\ ctl = "idle" /\ process = p /\ wpc[p] # "returned"
          THEN crashed_managed \cup {p} ELSE crashed_managed
    /\ UNCHANGED <<sup, ctl, idle, calls, last, nproc, returncode, stdin,
                   stdin_closed, stdout, worker, reader, responder,
                   restarted, term,
                   called, ended, framing, lifecycle>>

\* ----------------------------------------------------- the whole system

Next ==
    \/ Start
    \/ Send
    \/ Shutdown
    \/ ShutdownFinish
    \/ HandleResponse
    \/ OnThreadQuit
    \/ \E p \in Procs : ReaderRead(p)
    \/ \E p \in Procs : \E exc \in {"StandardError", "Exception"} : ReaderFault(p, exc)
    \/ \E p \in Procs : \E exc \in {"StandardError", "Exception"} :
          ReaderHandleFault(p, exc)
    \/ \E p \in Procs : ReaderNotify(p)
    \/ \E p \in Procs : \E fails \in BOOLEAN : WorkerSetup(p, fails)
    \/ \E p \in Procs : \E raises \in BOOLEAN : WorkerOnStartup(p, raises)
    \/ \E p \in Procs : PipeThread(p)
    \/ \E p \in Procs : \E outcome \in Outcomes : WorkerLoop(p, outcome)
    \/ \E p \in Procs : \E raises \in BOOLEAN : WorkerOnShutdown(p, raises)
    \/ \E p \in Procs : WorkerStuck(p)
    \/ \E p \in Procs : WorkerExit(p)
    \/ \E p \in Procs : WorkerCrash(p)

Spec == Init /\ [][Next]_vars

\* the steps that need no event from outside: the threads of the
\* supervisor and of the workers go on, handler methods return (or raise
\* a StandardError), the join in shutdown() ends
Internal ==
    \/ ShutdownFinish
    \/ HandleResponse
    \/ OnThreadQuit
    \/ \E p \in Procs : ReaderRead(p)
    \/ \E p \in Procs : ReaderNotify(p)
    \/ \E p \in Procs : WorkerSetup(p, FALSE)
    \/ \E p \in Procs : WorkerOnStartup(p, FALSE)
    \/ \E p \in Procs : PipeThread(p)
    \/ \E p \in Procs : WorkerLoop(p, "returns")
    \/ \E p \in Procs : WorkerLoop(p, "StandardError")
    \/ \E p \in Procs : WorkerOnShutdown(p, FALSE)
    \/ \E p \in Procs : WorkerExit(p)

\* every thread that can take a step is scheduled in the end
FairSpec == Spec /\ WF_vars(Internal)

\* ------------------------------------------- a worker process on its own

MaxFrames == 4     \* frames on the stdin a worker is started with

\* what _load_obj can return from a worker's stdin
Frames ==
    {StartupInfo, HandlerInfo, StopSentinel, SubprocessMessage(1),
     SubprocessMessage(2)}

FrameSeqs == UNION {[1 .. n -> Frames] : n \in 0 .. MaxFrames}

\* subprocess_main entered by process 1 with any frames on its stdin and
\* the other end of that pipe closed; no supervisor manages it
InitWorker ==
    /\ is_running = FALSE
    /\ process = NoProc
    /\ thread = NoProc
    /\ ctl = "idle"
    /\ idle = <<>>
    /\ calls = 0
    /\ last = [op |-> "__init__", res |-> "ok"]
    /\ nproc = 1
    /\ faults = 0
    /\ ps = [p \in Procs |-> IF p = 1 THEN "alive" ELSE "unborn"]
    /\ returncode = [p \in Procs |-> "None"]
    /\ stdin \in {[p \in Procs |-> IF p = 1 THEN q ELSE <<>>] : q \in FrameSeqs}
    /\ stdin_closed = [p \in Procs |-> p = 1]
    /\ stdout = [p \in Procs |-> <<>>]
    /\ wpc = [p \in Procs |-> IF p = 1 THEN "setup1" ELSE "unborn"]
    /\ tpc = [p \in Procs |-> "unstarted"]
    /\ queue = [p \in Procs |-> <<>>]
    /\ handled = [p \in Procs |-> <<>>]
    /\ raised = [p \in Procs |-> {}]
    /\ rpc = [p \in Procs |-> "unborn"]
    /\ quit_type = [p \in Procs |-> "None"]
    /\ delivered = [p \in Procs |-> <<>>]
    /\ n_on_startup = 0
    /\ n_on_shutdown = 0
    /\ n_on_restart = 0
    /\ restarted = [p \in Procs |-> 0]
    /\ term = [p \in Procs |-> "none"]
    /\ crashed_managed = {}
    /\ called = [p \in Procs |-> <<>>]
    /\ ended = [p \in Procs |-> "None"]
    /\ long_size = 4
    /\ wire = <<>>
    /\ sent = <<>>
    /\ got = <<>>
    /\ shut = FALSE
    /\ cut = FALSE
    /\ taken = 0
    /\ lifecycle = <<>>

NextWorker ==
    \/ \E p \in Procs : \E fails \in BOOLEAN : WorkerSetup(p, fails)
    \/ \E p \in Procs : \E raises \in BOOLEAN : WorkerOnStartup(p, raises)
    \/ \E p \in Procs : PipeThread(p)
    \/ \E p \in Procs : \E exc \in {"StandardError", "Exception"} :
          PipeThreadFault(p, exc)
    \/ \E p \in Procs : \E outcome \in Outcomes : WorkerLoop(p, outcome)
    \/ \E p \in Procs : \E raises \in BOOLEAN : WorkerOnShutdown(p, raises)
    \/ \E p \in Procs : WorkerExit(p)

SpecWorker == InitWorker /\ [][NextWorker]_vars

\* ================================================================ claims

\* a supervisor that has started worker 1, which has written any frames
\* to its stdout (what a worker writes there is up to the worker) and has
\* exited; the reader thread has read none of them yet
InitReader ==
    /\ is_running = TRUE
    /\ process = 1
    /\ thread = 1
    /\ ctl = "idle"
    /\ idle = <<>>
    /\ calls = 1
    /\ last = [op |-> "start", res |-> "started"]
    /\ nproc = 1
    /\ faults = 0
    /\ ps = [p \in Procs |-> IF p = 1 THEN "exited" ELSE "unborn"]
    /\ returncode = [p \in Procs |-> "None"]
    /\ stdin = [p \in Procs |-> <<>>]
    /\ stdin_closed = [p \in Procs |-> FALSE]
    /\ stdout \in {[p \in Procs |-> IF p = 1 THEN q ELSE <<>>] : q \in FrameSeqs}
    /\ wpc = [p \in Procs |-> IF p = 1 THEN "returned" ELSE "unborn"]
    /\ tpc = [p \in Procs |-> IF p = 1 THEN "done" ELSE "unstarted"]
    /\ queue = [p \in Procs |-> <<>>]
    /\ handled = [p \in Procs |-> <<>>]
    /\ raised = [p \in Procs |-> {}]
    /\ rpc = [p \in Procs |-> IF p = 1 THEN "reading" ELSE "unborn"]
    /\ quit_type = [p \in Procs |-> "None"]
    /\ delivered = [p \in Procs |-> <<>>]
    /\ n_on_startup = 1
    /\ n_on_shutdown = 0
    /\ n_on_restart = 0
    /\ restarted = [p \in Procs |-> 0]
    /\ term = [p \in Procs |-> "none"]
    /\ crashed_managed = {}
    /\ called = [p \in Procs |-> <<>>]
    /\ ended = [p \in Procs |-> "None"]
    /\ long_size = 4
    /\ wire = <<>>
    /\ sent = <<>>
    /\ got = <<>>
    /\ shut = FALSE
    /\ cut = FALSE
    /\ taken = 0
    /\ lifecycle = <<>>

\* the reader thread, and the eventloop running the responses it queued
NextReader ==
    \/ \E p \in Procs : ReaderRead(p)
    \/ \E p \in Procs : \E exc \in {"StandardError", "Exception"} :
          ReaderFault(p, exc)
    \/ \E p \in Procs : ReaderNotify(p)
    \/ HandleResponse

\* both readers of frames, each on any stream of frames
SpecStreams ==
    (InitWorker \/ InitReader) /\ [][NextWorker \/ NextReader]_vars

\* ------------------------- a run taken up after start() and shutdown()

\* the state after start() and a shutdown() whose join timed out: worker
\* 1 has been terminated and let go of, its reader thread has not yet
\* seen the end of the pipe; the run goes on from here with MaxEvents
\* further events
InitStale ==
    /\ is_running = FALSE
    /\ process = NoProc
    /\ thread = NoProc
    /\ ctl = "idle"
    /\ idle = <<>>
    /\ calls = 0
    /\ last = [op |-> "shutdown", res |-> "timeout"]
    /\ nproc = 1
    /\ faults = 0
    /\ ps = [p \in Procs |-> IF p = 1 THEN "terminated" ELSE "unborn"]
    /\ returncode = [p \in Procs |-> "None"]
    /\ stdin = [p \in Procs |->
                  IF p = 1 THEN <<StartupInfo, HandlerInfo, StopSentinel>>
                           ELSE <<>>]
    /\ stdin_closed = [p \in Procs |-> FALSE]
    /\ stdout = [p \in Procs |-> <<>>]
    /\ wpc = [p \in Procs |-> IF p = 1 THEN "setup1" ELSE "unborn"]
    /\ tpc = [p \in Procs |-> "unstarted"]
    /\ queue = [p \in Procs |-> <<>>]
    /\ handled = [p \in Procs |-> <<>>]
    /\ raised = [p \in Procs |-> {}]
    /\ rpc = [p \in Procs |-> IF p = 1 THEN "reading" ELSE "unborn"]
    /\ quit_type = [p \in Procs |-> "None"]
    /\ delivered = [p \in Procs |-> <<>>]
    /\ n_on_startup = 1
    /\ n_on_shutdown = 1
    /\ n_on_restart = 0
    /\ restarted = [p \in Procs |-> 0]
    /\ term = [p \in Procs |-> IF p = 1 THEN "alive" ELSE "none"]
    /\ crashed_managed = {}
    /\ called = [p \in Procs |-> <<>>]
    /\ ended = [p \in Procs |-> "None"]
    /\ long_size = 4
    /\ wire = <<>>
    /\ sent = <<>>
    /\ got = <<>>
    /\ shut = FALSE
    /\ cut = FALSE
    /\ taken = 0
    /\ lifecycle = <<[cb |-> "on_startup", proc |-> 1],
                     [cb |-> "on_shutdown", proc |-> 1],
                     [cb |-> "send_quit", proc |-> 1]>>

SpecStale == InitStale /\ [][Next]_vars

\* ------------------------------------------ pipes of bounded capacity

PipeCap == 2       \* frames an OS pipe holds before a write blocks

\* a write of n frames to p's stdin returns: there is room, or the pipe
\* is broken and the write raises IOError
RoomIn(p, n) == BrokenPipe(p) \/ Len(stdin[p]) + n <= PipeCap

\* a write of n frames by worker p to its stdout returns
RoomOut(p, n) == Len(stdout[p]) + n <= PipeCap

\* the system with blocking writes: a step that writes to a pipe is taken
\* when the pipe has room for what it writes (_start writes its two
\* frames to a new, empty pipe)
NextPipes ==
    \/ Start
    \/ (is_running => RoomIn(process, 1)) /\ Send
    \/ (is_running => RoomIn(process, 1)) /\ Shutdown
    \/ ShutdownFinish
    \/ HandleResponse
    \/ OnThreadQuit
    \/ \E p \in Procs : ReaderRead(p)
    \/ \E p \in Procs : \E exc \in {"StandardError", "Exception"} : ReaderFault(p, exc)
    \/ \E p \in Procs : \E exc \in {"StandardError", "Exception"} :
          ReaderHandleFault(p, exc)
    \/ \E p \in Procs : ReaderNotify(p)
    \/ \E p \in Procs : \E fails \in BOOLEAN : RoomOut(p, 2) /\ WorkerSetup(p, fails)
    \/ \E p \in Procs : \E raises \in BOOLEAN : WorkerOnStartup(p, raises)
    \/ \E p \in Procs : PipeThread(p)
    \/ \E p \in Procs : \E outcome \in Outcomes :
          (outcome = "StandardError" => RoomOut(p, 1)) /\ WorkerLoop(p, outcome)
    \/ \E p \in Procs : \E raises \in BOOLEAN :
          (~raises => RoomOut(p, 1)) /\ WorkerOnShutdown(p, raises)
    \/ \E p \in Procs : WorkerStuck(p)
    \/ \E p \in Procs : WorkerExit(p)
    \/ \E p \in Procs : WorkerCrash(p)

InternalPipes ==
    \/ ShutdownFinish
    \/ HandleResponse
    \/ OnThreadQuit
    \/ \E p \in Procs : ReaderRead(p)
    \/ \E p \in Procs : ReaderNotify(p)
    \/ \E p \in Procs : RoomOut(p, 2) /\ WorkerSetup(p, FALSE)
    \/ \E p \in Procs : WorkerOnStartup(p, FALSE)
    \/ \E p \in Procs : PipeThread(p)
    \/ \E p \in Procs : WorkerLoop(p, "returns")
    \/ \E p \in Procs : RoomOut(p, 1) /\ WorkerLoop(p, "StandardError")
    \/ \E p \in Procs : RoomOut(p, 1) /\ WorkerOnShutdown(p, FALSE)
    \/ \E p \in Procs : WorkerExit(p)

SpecPipes == Init /\ [][NextPipes]_vars

FairPipes == SpecPipes /\ WF_vars(InternalPipes)

\* ------------------------------------------------- framing, byte by byte

\* the objects sent through _dump_obj in this part
FrameMsgs == {StopSentinel, StartupInfo, SubprocessMessage(1)}

\* pickle.dumps(obj): None pickles as "N."; an instance pickles to bytes
\* that name its class and its fields and end with the STOP opcode "."
pickle_dumps(obj) ==
    IF obj = StopSentinel THEN <<78, 46>>
    ELSE IF obj.kind = "StartupInfo" THEN <<1, obj.id, 46>>
    ELSE <<2, 2, obj.id, 46>>

\* an exception of class e in the place of a returned object
Raise(e) == [kind |-> e, id |-> 0]

\* pickle.loads(data): the object whose pickle data is, UnpicklingError
\* for bytes that are no pickle
pickle_loads(data) ==
    IF \E m \in FrameMsgs : pickle_dumps(m) = data
    THEN CHOOSE m \in FrameMsgs : pickle_dumps(m) = data
    ELSE Raise("UnpicklingError")

\* struct.pack("L", n): an unsigned long in native size and byte order,
\* least significant byte first
RECURSIVE le_bytes(_, _)
le_bytes(n, k) ==
    IF k = 0 THEN <<>> ELSE <<n % 256>> \o le_bytes(n \div 256, k - 1)

struct_pack(n) == le_bytes(n, long_size)

RECURSIVE le_value(_)
le_value(b) == IF b = <<>> THEN 0 ELSE Head(b) + 256 * le_value(Tail(b))

\* struct.unpack("L", b)[0]: struct.error (here -1) unless b has the
\* native size
struct_unpack(b) == IF Len(b) # long_size THEN -1 ELSE le_value(b)

\* pipe.read(n) at a point where the n bytes or the end of the stream
\* have arrived: up to n bytes from the front
read(pipe, n) == SubSeq(pipe, 1, IF n < Len(pipe) THEN n ELSE Len(pipe))

\* the bytes _dump_obj(obj, pipe) writes and flushes
_dump_obj_bytes(obj) ==
    LET pickle_data == pickle_dumps(obj)
        size_data == struct_pack(Len(pickle_data))
    IN size_data \o pickle_data

\* _load_obj(pipe): what it returns or raises (res) and how many bytes it
\* has read from the pipe (n)
_load_obj(pipe) ==
    LET size_data == read(pipe, 4) IN
    IF Len(size_data) < 4
    THEN [res |-> Raise("EOFError"), n |-> Len(size_data)]
    ELSE LET size == struct_unpack(size_data) IN
         IF size = -1 THEN [res |-> Raise("struct.error"), n |-> 4]
         ELSE LET pickle_data == read(SubSeq(pipe, 5, Len(pipe)), size) IN
              IF Len(pickle_data) < size
              THEN [res |-> Raise("EOFError"), n |-> 4 + Len(pickle_data)]
              ELSE [res |-> pickle_loads(pickle_data), n |-> 4 + size]

\* a pipe on a platform of either size of long, nothing written yet
InitFrame ==
    /\ is_running = FALSE
    /\ process = NoProc
    /\ thread = NoProc
    /\ ctl = "idle"
    /\ idle = <<>>
    /\ calls = 0
    /\ last = [op |-> "__init__", res |-> "ok"]
    /\ nproc = 0
    /\ faults = 0
    /\ ps = [p \in Procs |-> "unborn"]
    /\ returncode = [p \in Procs |-> "None"]
    /\ stdin = [p \in Procs |-> <<>>]
    /\ stdin_closed = [p \in Procs |-> FALSE]
    /\ stdout = [p \in Procs |-> <<>>]
    /\ wpc = [p \in Procs |-> "unborn"]
    /\ tpc = [p \in Procs |-> "unstarted"]
    /\ queue = [p \in Procs |-> <<>>]
    /\ handled = [p \in Procs |-> <<>>]
    /\ raised = [p \in Procs |-> {}]
    /\ rpc = [p \in Procs |-> "unborn"]
    /\ quit_type = [p \in Procs |-> "None"]
    /\ delivered = [p \in Procs |-> <<>>]
    /\ n_on_startup = 0
    /\ n_on_shutdown = 0
    /\ n_on_restart = 0
    /\ restarted = [p \in Procs |-> 0]
    /\ term = [p \in Procs |-> "none"]
    /\ crashed_managed = {}
    /\ called = [p \in Procs |-> <<>>]
    /\ ended = [p \in Procs |-> "None"]
    /\ long_size \in {4, 8}
    /\ wire = <<>>
    /\ sent = <<>>
    /\ got = <<>>
    /\ shut = FALSE
    /\ cut = FALSE
    /\ taken = 0
    /\ lifecycle = <<>>

noframing == <<sup, ctl, idle, calls, last, nproc, faults, ps, returncode,
               stdin, stdin_closed, stdout, worker, reader, responder,
               restarted, term, crashed_managed, called, ended, lifecycle>>

\* _dump_obj(obj, pipe) by the writer of the pipe
FrameDump(obj) ==
    /\ ~shut
    /\ Len(sent) < MaxFrames
    /\ wire' = wire \o _dump_obj_bytes(obj)
    /\ sent' = Append(sent, obj)
    /\ UNCHANGED <<long_size, got, shut, cut, taken, noframing, lifecycle>>

\* the writer closes its end or goes away, with the first k bytes of a
\* frame for obj written (none of them: between two frames)
FrameShut(obj, k) ==
    /\ ~shut
    /\ k < Len(_dump_obj_bytes(obj))
    /\ wire' = wire \o SubSeq(_dump_obj_bytes(obj), 1, k)
    /\ shut' = TRUE
    /\ cut' = (k > 0)
    /\ UNCHANGED <<long_size, sent, got, taken, noframing, lifecycle>>

\* one call of _load_obj by the reader of the pipe; its reads return when
\* the bytes asked for are there or the stream has ended.  After an
\* exception other than EOFError no caller reads on.
FrameLoad ==
    LET r == _load_obj(wire) IN
    /\ shut \/ (wire # <<>> /\ r.res # Raise("EOFError"))
    /\ Len(got) <= MaxFrames
    /\ \A i \in 1 .. Len(got) :
          got[i] \notin {Raise("struct.error"), Raise("UnpicklingError")}
    /\ got' = Append(got, r.res)
    /\ wire' = SubSeq(wire, r.n + 1, Len(wire))
    /\ taken' = taken + r.n
    /\ UNCHANGED <<long_size, sent, shut, cut, noframing, lifecycle>>

NextFrame ==
    \/ \E obj \in FrameMsgs : FrameDump(obj)
    \/ \E obj \in FrameMsgs :
          \E k \in 0 .. Len(_dump_obj_bytes(obj)) - 1 : FrameShut(obj, k)
    \/ FrameLoad

SpecFrame == InitFrame /\ [][NextFrame]_vars

\* the eventloop runs a reader thread's quit callback in this step
QuitStep == idle # <<>> /\ Head(idle).cb = "quit" /\ idle' = Tail(idle)

\* the quit callback added by the reader thread of p has run
Notified(p) ==
    /\ rpc[p] = "done"
    /\ \A i \in 1 .. Len(idle) : ~(idle[i].cb = "quit" /\ idle[i].from = p)

\* the application makes the call op in this step
Calls(op) == calls' = calls + 1 /\ last'.op = op

\* all the state but the record of the application's calls
state == <<is_running, process, thread, ctl, idle, nproc, faults, ps,
           returncode, stdin, stdin_closed, stdout, wpc, tpc, queue, handled,
           raised, rpc, quit_type, delivered, n_on_startup, n_on_shutdown,
           n_on_restart, restarted, term, crashed_managed, called, ended,
           long_size, wire, sent, got, shut, cut, taken, lifecycle>>

\* C1: the messages a worker dispatches to its handler are dispatched in
\* the order in which send_message was called with them (ids grow with
\* the calls): never b before a when a was sent before b.
C1_OrderPreserved ==
    \A p \in Procs : \A i, j \in 1 .. Len(handled[p]) :
        i < j => handled[p][i] < handled[p][j]

C1_Witness == \E p \in Procs : Len(handled[p]) >= 2

C3_RestartOnlyAfterAbnormalQuit ==
    [][n_on_restart' # n_on_restart =>
          /\ rpc[thread] \in {"quit", "done"}
          /\ quit_type[thread] \notin {"None", "normal"}]_vars

\* C4 as claimed: at most one spawned worker process is alive.
C4_AtMostOneAlive == Cardinality({p \in Procs : ps[p] = "alive"}) <= 1

\* C4, amended: a live worker other than the one the supervisor holds has
\* had its stdin closed by a restart or has already written its stop
\* sentinel (a shutdown() terminates the one it releases).
C4_OthersAreWindingDown ==
    \A p \in Procs :
        ps[p] = "alive" /\ ~(is_running /\ process = p) =>
            stdin_closed[p] \/ wpc[p] = "returned"

C4_Witness ==
    \E p \in Procs :
        /\ is_running /\ process # p /\ ps[process] = "alive"
        /\ ps[p] = "alive" /\ stdin_closed[p] /\ wpc[p] # "returned"

\* C5: a shutdown() made while running always returns (the join has a
\* timeout), and returns with is_running false and process and thread
\* released, however the worker fared.
C5_ShutdownEndsStopped ==
    /\ [](ctl = "join" => is_running /\ process # NoProc /\ ENABLED ShutdownFinish)
    /\ [][ctl = "join" /\ ctl' = "idle" =>
            ~is_running' /\ process' = NoProc /\ thread' = NoProc]_vars

C5_Witness ==
    /\ last = [op |-> "shutdown", res |-> "timeout"]
    /\ ~is_running /\ process = NoProc /\ thread = NoProc
    /\ \E p \in Procs : term[p] = "crashed"

\* C6: shutdown() issues no terminate to a worker process that has
\* already exited cleanly: one that ran its message loop to the stop
\* sentinel (its pipe thread is done), answered None and exited.
C6_NoTerminateAfterCleanExit ==
    \A p \in Procs :
        ~(term[p] = "exited" /\ tpc[p] = "done" /\ wpc[p] = "returned")

\* C7: shutdown() while not running changes nothing: no callback, no
\* stop sentinel, no terminate, the state of one shutdown() stays.
C7_ShutdownTwiceIsOnce ==
    [][Calls("shutdown") /\ ~is_running =>
          UNCHANGED state /\ last'.res = "noop"]_vars

C7_Witness ==
    /\ last = [op |-> "shutdown", res |-> "noop"]
    /\ n_on_shutdown = 1 /\ \E p \in Procs : term[p] # "none"

\* C8: start() while running changes nothing: no process, no thread, no
\* startup frames, no on_startup, the same handles.
C8_StartWhileRunningIsNoop ==
    [][Calls("start") /\ is_running =>
          UNCHANGED state /\ last'.res = "noop"]_vars

C8_Witness == last = [op |-> "start", res |-> "noop"] /\ is_running

\* C9: send_message while not running raises the not-running error,
\* writes to no stream and leaves the supervisor as it was.
C9_SendWhileStoppedRaises ==
    [][Calls("send_message") /\ ~is_running =>
          UNCHANGED state /\ last'.res = "ValueError"]_vars

C9_Witness ==
    /\ last = [op |-> "send_message", res |-> "ValueError"]
    /\ nproc = 1 /\ ~is_running

\* C10: send_message while running on a broken pipe returns normally,
\* restarts nothing and leaves is_running, process and thread alone; a
\* restart happens only in a reader thread's quit callback.
C10_BrokenPipeSendIsQuiet ==
    /\ [][Calls("send_message") /\ is_running /\ BrokenPipe(process) =>
            UNCHANGED state /\ last'.res = "IOError logged"]_vars
    /\ [][n_on_restart' # n_on_restart \/ nproc' # nproc =>
            QuitStep \/ Calls("start")]_vars

C10_Witness ==
    /\ last = [op |-> "send_message", res |-> "IOError logged"]
    /\ is_running /\ BrokenPipe(process)

\* C11: nothing is written to the stdin of a process before it is
\* spawned; the step that spawns it leaves exactly StartupInfo then
\* HandlerInfo there, so every message and the stop sentinel come after
\* both; and the responder's on_startup runs only in such a step, with
\* both frames written.
C11_StartupFramesFirst ==
    /\ [](\A p \in Procs : ps[p] = "unborn" => stdin[p] = <<>>)
    /\ [][\A p \in Procs :
            ps[p] = "unborn" /\ ps'[p] # "unborn" =>
                stdin'[p] = <<StartupInfo, HandlerInfo>>]_vars
    /\ [][n_on_startup' # n_on_startup =>
            /\ n_on_startup' = n_on_startup + 1
            /\ \E p \in Procs :
                  /\ ps[p] = "unborn" /\ ps'[p] = "alive"
                  /\ stdin'[p] = <<StartupInfo, HandlerInfo>>]_vars

C11_Witness ==
    \E p \in Procs :
        /\ restarted[p] = 1 /\ n_on_startup = 2
        /\ stdin[process] = <<StartupInfo, HandlerInfo, SubprocessMessage(calls)>>

\* the step of p's _subprocess_setup fails: EOF or a frame of the wrong
\* class is read, or the initialisation or the handler constructor raises
HandshakeFails(p) ==
    /\ wpc[p] \in {"setup1", "setup2"}
    /\ wpc'[p] # wpc[p]
    /\ \/ AtEOF(stdin[p], stdin_closed[p])
       \/ Head(stdin[p]) # (IF wpc[p] = "setup1" THEN StartupInfo
                                                 ELSE HandlerInfo)
       \/ faults' # faults

\* C12: a worker whose handshake fails writes one SubprocessError, then
\* the stop sentinel, and its main thread returns; it has then started no
\* pipe thread, queued and dispatched nothing, never reached on_startup
\* or the loop, stays so and writes nothing more until the process ends.
C12_HandshakeFailureEndsWorker ==
    /\ [][\A p \in Procs :
            HandshakeFails(p) =>
                /\ stdout'[p] = stdout[p] \o <<SubprocessError(0), StopSentinel>>
                /\ wpc'[p] = "returned"
                /\ tpc'[p] = "unstarted"]_vars
    /\ [](\A p \in Procs :
            wpc[p] = "returned" /\ tpc[p] = "unstarted" =>
                /\ stdout[p] = <<SubprocessError(0), StopSentinel>>
                /\ queue[p] = <<>> /\ handled[p] = <<>>
                /\ ps[p] = "alive" => ENABLED WorkerExit(p))
    /\ [][\A p \in Procs :
            wpc[p] = "returned" /\ tpc[p] = "unstarted" =>
                /\ wpc'[p] = "returned" /\ tpc'[p] = "unstarted"
                /\ stdout'[p] = stdout[p]]_vars

C12_Witness ==
    /\ ps[1] = "exited" /\ wpc[1] = "returned" /\ tpc[1] = "unstarted"
    /\ faults = 0 /\ stdin[1] = <<HandlerInfo, SubprocessMessage(1)>>
    /\ stdout[1] = <<SubprocessError(0), StopSentinel>>

\* SubprocessError frames for message n of worker p on their way to the
\* responder or run by it: on p's stdout, in the eventloop, delivered
ErrorsFor(p, n) ==
    Cardinality({i \in 1 .. Len(stdout[p]) : stdout[p][i] = SubprocessError(n)})
    + Cardinality({i \in 1 .. Len(idle) :
                     /\ idle[i].cb = "handle" /\ idle[i].from = p
                     /\ idle[i].msg = SubprocessError(n)})
    + Cardinality({i \in 1 .. Len(delivered[p]) : delivered[p][i] = n})

\* C13: when the handler method raises on a message in the main loop,
\* the worker sends exactly one SubprocessError for it, with soft_fail
\* true (none for a message whose method returns); the main thread stays
\* in the loop, the process lives on, and the messages queued behind it
\* stay queued in their order, to be popped by the next turns.
C13_HandlerErrorIsSoft ==
    /\ [](\A p \in Procs : \A i \in 1 .. Len(handled[p]) :
            ErrorsFor(p, handled[p][i]) =
                (IF handled[p][i] \in raised[p] THEN 1 ELSE 0))
    /\ [](\A p \in Procs : \A i \in 1 .. Len(stdout[p]) :
            stdout[p][i].kind = "SubprocessError" => stdout[p][i].soft_fail)
    /\ [][\A p \in Procs :
            raised'[p] # raised[p] =>
                /\ stdout'[p] = Append(stdout[p],
                                       SubprocessError(Head(queue[p]).id))
                /\ wpc'[p] = "loop" /\ ps'[p] = "alive"
                /\ queue'[p] = Tail(queue[p])]_vars
    /\ [](\A p \in Procs :
            ps[p] = "alive" /\ wpc[p] = "loop" /\ queue[p] # <<>> =>
                ENABLED WorkerLoop(p, "returns"))

\* C14: no error of a handler method (on_startup, handle, on_shutdown)
\* ends the worker abnormally: the main thread of a worker never ends
\* with an exception, so a worker that exits by itself has returned from
\* subprocess_main, past the write of its stop sentinel.
C14_HandlerErrorsNeverEndWorker ==
    \A p \in Procs :
        /\ wpc[p] # "raised"
        /\ ps[p] = "exited" => wpc[p] = "returned"

\* the ids of the frames of worker p, oldest first: those the responder
\* has run, those waiting in the eventloop, those still on p's stdout
Inbound(p) ==
    LET waiting == SelectSeq(idle, LAMBDA e : e.cb = "handle" /\ e.from = p)
        unread == SelectSeq(stdout[p], LAMBDA m : m # StopSentinel)
    IN  delivered[p]
        \o [i \in 1 .. Len(waiting) |-> waiting[i].msg.id]
        \o [i \in 1 .. Len(unread) |-> unread[i].id]

\* C15: the responder's methods run in the order in which the worker
\* wrote the messages.  A worker writes its errors in the order of the
\* messages it dispatched, that is by growing id; so along the way from
\* its stdout through the reader thread and the eventloop to the
\* responder the ids never come out of order: no step of the reader
\* thread or of the eventloop lets a frame overtake another.
C15_InboundOrderPreserved ==
    \A p \in Procs : \A i, j \in 1 .. Len(Inbound(p)) :
        i < j => Inbound(p)[i] < Inbound(p)[j]

C15_Witness ==
    \E p \in Procs :
        /\ Len(delivered[p]) = 2 /\ delivered[p][1] < delivered[p][2]
        /\ raised[p] = {delivered[p][1], delivered[p][2]}

\* the reader thread of p takes a step: it reads a frame or ends its loop,
\* or adds its quit callback
ReaderStep(p) ==
    /\ rpc[p] \in {"reading", "quit"}
    /\ rpc'[p] # rpc[p] \/ Len(stdout'[p]) < Len(stdout[p])

\* C16: a step of a reader thread changes nothing of the supervisor
\* (is_running, process, thread) and runs no responder method; all it
\* does to the eventloop is append one callback.  A responder handler
\* runs, and a restart or cleanup for a reader's end happens, only in a
\* step of the control thread that takes the callback at the head of the
\* eventloop's queue.
C16_ReaderOnlyEnqueues ==
    /\ [][\A p \in Procs :
            ReaderStep(p) =>
                /\ UNCHANGED <<sup, responder, ctl>>
                /\ \/ idle' = idle
                   \/ /\ Len(idle') = Len(idle) + 1
                      /\ SubSeq(idle', 1, Len(idle)) = idle
                      /\ idle'[Len(idle')].from = p]_vars
    /\ [][delivered' # delivered =>
            /\ ctl = "idle" /\ idle # <<>> /\ idle' = Tail(idle)
            /\ Head(idle).cb = "handle"
            /\ \A p \in Procs : ~ReaderStep(p)]_vars
    /\ [][n_on_restart' # n_on_restart \/ (is_running /\ ~is_running') =>
            /\ ctl' = "idle"
            /\ \A p \in Procs : ~ReaderStep(p)
            /\ ctl = "idle" => QuitStep]_vars

C16_Witness ==
    \E p \in Procs :
        /\ delivered[p] # <<>> /\ restarted[p] = 1 /\ Notified(p)
        /\ is_running /\ rpc[process] = "reading"

\* the quit reason of the reader thread whose quit callback is at the
\* head of the eventloop's queue
NotifiedReason == quit_type[Head(idle).from]

\* C17: is_running changes only so: false to true only in start(); true
\* to false only at the end of shutdown() or by a quit notification with
\* reason normal; a quit notification with another reason processed while
\* running restarts and leaves the supervisor running, and nothing else
\* restarts; a quit notification processed while stopped changes nothing
\* of the supervisor.
C17_RunningStateMachine ==
    /\ [][~is_running /\ is_running' => Calls("start")]_vars
    /\ [][is_running /\ ~is_running' =>
            \/ ctl = "join" /\ ctl' = "idle"
            \/ QuitStep /\ NotifiedReason = "normal"]_vars
    /\ [][QuitStep /\ ctl = "idle" /\ is_running /\ NotifiedReason # "normal" =>
            is_running' /\ n_on_restart' = n_on_restart + 1]_vars
    /\ [][n_on_restart' # n_on_restart =>
            QuitStep /\ is_running /\ NotifiedReason # "normal"]_vars
    /\ [][QuitStep /\ ctl = "idle" /\ ~is_running => UNCHANGED sup]_vars

\* worker p was killed, or its main thread ended with an exception,
\* before subprocess_main came to write the stop sentinel
Killed(p) ==
    /\ wpc[p] # "returned"
    /\ ps[p] \in {"crashed", "terminated"} \/ wpc[p] = "raised"

\* a step of the threads of worker p with handler methods that return
WorkerStep(p) ==
    \/ WorkerSetup(p, FALSE)
    \/ WorkerOnStartup(p, FALSE)
    \/ PipeThread(p)
    \/ WorkerLoop(p, "returns")
    \/ WorkerOnShutdown(p, FALSE)

\* C18: once shutdown() has called send_quit for a worker, in the end and
\* for good the worker has come to the end of subprocess_main (through
\* on_shutdown when the handshake succeeded), has written the stop
\* sentinel back, and its reader thread has ended with quit_type normal;
\* unless the
\* worker is killed or a handler method raises out of the main thread
\* before the sentinel is written back, or the reader thread fails on
\* the pipe.  Until then a live worker that was sent the sentinel and
\* is not inside a handler method that never returns can always take its
\* next step.
C18_CleanShutdownHandshake ==
    /\ <>[](\A p \in Procs :
            (\E i \in 1 .. Len(lifecycle) :
                lifecycle[i] = [cb |-> "send_quit", proc |-> p])
            => \/ wpc[p] = "returned" /\ quit_type[p] = "normal"
               \/ Killed(p)
               \/ quit_type[p] \in {"read-error", "unknown"})
    /\ [](\A p \in Procs :
            /\ ps[p] = "alive" /\ wpc[p] \notin {"returned", "raised", "stuck"}
            /\ \/ \E i \in 1 .. Len(stdin[p]) : stdin[p][i] = StopSentinel
               \/ tpc[p] = "done"
            => ENABLED WorkerStep(p))

C18_Witness ==
    \E p \in Procs :
        /\ wpc[p] = "returned" /\ tpc[p] = "done" /\ quit_type[p] = "normal"
        /\ handled[p] # <<>> /\ ~is_running /\ n_on_shutdown = 1

\* the messages written to the stdin of p and not yet dispatched: still
\* in the pipe or on the worker's queue
Undispatched(p) ==
    {i \in 1 .. Len(stdin[p]) : stdin[p][i].kind = "SubprocessMessage"}
    \cup {Len(stdin[p]) + i : i \in
             {k \in 1 .. Len(queue[p]) : queue[p][k].kind = "SubprocessMessage"}}

\* the channel to worker p is broken: the process is gone or the
\* supervisor has closed its end of the worker's stdin
ChannelBroken(p) == ps[p] # "alive" \/ stdin_closed[p]

\* C19: the messages send_message has written to a worker are all
\* dispatched to its handler in the end, unless the channel to that
\* worker breaks first.
C19_AcceptedIsDispatched ==
    \A p \in Procs :
        (Undispatched(p) # {}) ~> (Undispatched(p) = {} \/ ChannelBroken(p))

\* C20: once a shutdown() that had to terminate a worker still at work
\* has returned (term[p] records the terminate and the worker's state
\* then, in the last step of shutdown(); the worker had not written its
\* stop sentinel), the responder runs no further handler method for a
\* message of that worker.
C20_NothingDeliveredAfterForcedShutdown ==
    [][\A p \in Procs :
          term[p] = "alive" /\ wpc[p] # "returned" =>
              delivered'[p] = delivered[p]]_vars

\* C21 as claimed: when on_restart fires, the stdin of the old worker is
\* closed and the new worker has completed its handshake: it has read
\* StartupInfo and HandlerInfo and built its handler.
C21_OnRestartAfterHandshake ==
    [][n_on_restart' # n_on_restart =>
          /\ stdin_closed'[process]
          /\ wpc'[process'] \notin {"setup1", "setup2"}]_vars

\* C21, amended: a restart closes the stdin of the old worker, spawns a
\* process that did not exist before, writes StartupInfo then HandlerInfo
\* to it and calls on_restart once, all in the one run of _restart on the
\* control thread; on_restart fires in no other step.  The new worker has
\* then read neither frame: nothing waits for its handshake.
C21_OnRestartAfterFramesSent ==
    /\ [][\A p \in Procs :
            restarted'[p] # restarted[p] =>
                /\ process = p /\ ~stdin_closed[p] /\ stdin_closed'[p]
                /\ ps[process'] = "unborn" /\ ps'[process'] = "alive"
                /\ stdin'[process'] = <<StartupInfo, HandlerInfo>>
                /\ wpc'[process'] = "setup1"
                /\ n_on_restart' = n_on_restart + 1]_vars
    /\ [][n_on_restart' # n_on_restart =>
            \E p \in Procs : restarted'[p] = restarted[p] + 1]_vars

C21_Witness ==
    /\ n_on_restart = 1 /\ is_running /\ wpc[process] = "setup1"
    /\ \E p \in Procs : restarted[p] = 1 /\ stdin_closed[p] /\ ps[p] = "alive"

\* the places of the stop sentinel among the frames on p's stdout
SentinelsOut(p) == {i \in 1 .. Len(stdout[p]) : stdout[p][i] = StopSentinel}

\* C22: over a run of a worker (nothing reads its stdout here, so stdout
\* is all it wrote) the stop sentinel is written at most once and is the
\* last frame; it is there exactly when subprocess_main has returned;
\* and on the exit from the main loop it is written right after the one
\* call of on_shutdown, never when on_shutdown raised.
C22_SentinelOnceLastAfterOnShutdown ==
    \A p \in Procs :
        /\ Cardinality(SentinelsOut(p)) <= 1
        /\ \A i \in SentinelsOut(p) : i = Len(stdout[p])
        /\ (wpc[p] = "returned") <=> (SentinelsOut(p) # {})
        /\ \A i \in 1 .. Len(called[p]) :
              called[p][i] = "None" =>
                  /\ i = Len(called[p]) /\ wpc[p] = "returned"
                  /\ tpc[p] # "unstarted" =>
                        /\ i > 1 /\ called[p][i - 1] = "on_shutdown"
                        /\ \A j \in 1 .. i - 2 : called[p][j] # "on_shutdown"

C22_Witness ==
    /\ called[1] = <<"on_startup", "handle", "on_shutdown", "None">>
    /\ stdout[1] = <<SubprocessError(1), StopSentinel>>
    /\ ps[1] = "exited"

\* the places of a call in the log of p's handler calls
CallsOf(p, what) == {i \in 1 .. Len(called[p]) : called[p][i] = what}

\* C28: in a worker whose handshake succeeded, on_startup is called once
\* and first; handle is called for one message per step, always the head
\* of the queue, which holds the messages in the order the pipe thread
\* read them; on_shutdown is called at most once, only once the stop
\* marker has been taken from the queue, and exactly once when
\* subprocess_main returns; no handle follows it.
C28_WorkerLifecycleOrder ==
    /\ [](\A p \in Procs :
            /\ Cardinality(CallsOf(p, "on_startup")) <= 1
            /\ \A i \in CallsOf(p, "on_startup") : i = 1
            /\ Cardinality(CallsOf(p, "on_shutdown")) <= 1
            /\ \A i \in CallsOf(p, "handle") :
                  /\ 1 \in CallsOf(p, "on_startup")
                  /\ \A j \in CallsOf(p, "on_shutdown") : i < j
            /\ \A j \in CallsOf(p, "on_shutdown") : 1 \in CallsOf(p, "on_startup")
            /\ Cardinality(CallsOf(p, "handle")) = Len(handled[p])
            /\ wpc[p] \in {"on_startup", "loop"} => CallsOf(p, "on_shutdown") = {}
            /\ wpc[p] = "returned" /\ tpc[p] # "unstarted" =>
                  /\ Cardinality(CallsOf(p, "on_startup")) = 1
                  /\ Cardinality(CallsOf(p, "on_shutdown")) = 1)
    /\ [][\A p \in Procs :
            /\ handled'[p] # handled[p] =>
                  /\ queue[p] # <<>> /\ Head(queue[p]) # StopSentinel
                  /\ handled'[p] = Append(handled[p], Head(queue[p]).id)
                  /\ queue'[p] = Tail(queue[p])
                  /\ Len(called'[p]) = Len(called[p]) + 1
            /\ wpc[p] = "loop" /\ wpc'[p] = "on_shutdown" =>
                  /\ queue[p] # <<>> /\ Head(queue[p]) = StopSentinel
                  /\ queue'[p] = Tail(queue[p])
            /\ CallsOf(p, "on_shutdown")' # CallsOf(p, "on_shutdown") =>
                  wpc[p] = "on_shutdown"
            /\ tpc[p] = "reading" /\ tpc'[p] = "reading"
                  /\ queue'[p] # queue[p] /\ handled'[p] = handled[p] =>
                  queue'[p] \o stdin'[p] = queue[p] \o stdin[p]]_vars

C28_Witness ==
    /\ called[1] = <<"on_startup", "handle", "handle", "on_shutdown", "None">>
    /\ handled[1] = <<2, 1>>
    /\ queue[1] = <<>>

\* the places of the stop marker in p's queue
MarkersQueued(p) == {i \in 1 .. Len(queue[p]) : queue[p][i] = StopSentinel}

\* C29: once the pipe thread of a worker is over, however it ended, and
\* the main thread has not taken the stop marker yet, the marker is in
\* the queue exactly once and behind every queued message, so the main
\* loop has an entry to take and the worker can go on to its end.
C29_PipeThreadAlwaysLeavesMarker ==
    \A p \in Procs :
        tpc[p] \in {"done", "raised"} /\ wpc[p] \in {"on_startup", "loop"} =>
            /\ Cardinality(MarkersQueued(p)) = 1
            /\ Len(queue[p]) \in MarkersQueued(p)

\* the places of p's quit callback in the eventloop's queue
QuitEntries(p) ==
    {i \in 1 .. Len(idle) : idle[i].cb = "quit" /\ idle[i].from = p}

\* C26: a reader thread has a quit_type other than None exactly from the
\* moment its loop has ended; quit_type is set once, in the step that
\* ends the loop, and never changes afterwards; the quit callback is
\* added once, in a later step of the thread, after which the thread is
\* over; and when the eventloop runs the callback of a thread, that
\* thread's quit_type is not None.
C26_QuitTypeSetOnceThenOneNotification ==
    /\ [](\A p \in Procs :
            /\ (rpc[p] \in {"quit", "done"}) <=> (quit_type[p] # "None")
            /\ Cardinality(QuitEntries(p)) <= 1
            /\ QuitEntries(p) # {} => rpc[p] = "done")
    /\ [][\A p \in Procs :
            /\ quit_type'[p] # quit_type[p] =>
                  /\ quit_type[p] = "None" /\ quit_type'[p] # "None"
                  /\ rpc[p] = "reading" /\ rpc'[p] = "quit"
                  /\ QuitEntries(p)' = {}
            /\ rpc[p] = "quit" /\ rpc'[p] # rpc[p] =>
                  /\ rpc'[p] = "done"
                  /\ Cardinality(QuitEntries(p)') = 1
                  /\ idle' = Append(idle, idle'[Len(idle')])
            /\ rpc[p] = "done" =>
                  /\ rpc'[p] = "done"
                  /\ QuitEntries(p)' # {} => QuitEntries(p) # {}]_vars
    /\ [][QuitStep => quit_type[Head(idle).from] # "None"]_vars

C26_Witness ==
    \E p \in Procs :
        /\ Notified(p) /\ quit_type[p] = "closed-pipe"
        /\ \E q \in Procs : q # p /\ rpc[q] = "quit" /\ quit_type[q] = "unknown"

RECURSIVE written(_)
written(k) == IF k = 0 THEN 0
              ELSE written(k - 1) + Len(_dump_obj_bytes(sent[k]))

\* C23: the i-th _load_obj on a pipe returns the object the i-th
\* _dump_obj was called with, the stop sentinel None included, and after
\* k such calls exactly the bytes of the first k frames have been read.
C23_FramingRoundTrip ==
    /\ \A i \in 1 .. Len(got) : i <= Len(sent) => got[i] = sent[i]
    /\ Len(got) <= Len(sent) => taken = written(Len(got))

\* C24: a _load_obj on a stream that ends before a whole frame is there
\* (no byte, a part of the header, or the header and a part of the
\* payload) raises EOFError: it returns no object, and what was there of
\* the frame is read away, so that every later call meets the end of the
\* stream as well.
C24_ShortReadIsEndOfStream ==
    /\ \A i \in 1 .. Len(got) : i > Len(sent) => got[i] = Raise("EOFError")
    /\ (\E i \in 1 .. Len(got) : got[i] = Raise("EOFError")) =>
          shut /\ wire = <<>>

\* C25: when the eventloop runs the quit callback queued by the reader
\* thread of a worker that a shutdown() has released in the meantime, the
\* supervisor's is_running, process and thread stay as they are and no
\* restart is made, whatever was called since that shutdown().
C25_StaleQuitIgnored ==
    [][QuitStep /\ term[Head(idle).from] # "none" =>
          /\ UNCHANGED sup
          /\ n_on_restart' = n_on_restart
          /\ nproc' = nproc]_vars

\* the callbacks in the eventloop's queue that deliver a response of p
HandleEntries(p) ==
    {i \in 1 .. Len(idle) : idle[i].cb = "handle" /\ idle[i].from = p}

\* C30: the step in which the supervisor's reader thread of p takes None
\* from p's stdout ends its loop and queues no response; from then on the
\* frames left on p's stdout stay there and no further response of p is
\* queued.  The step in which the worker's pipe thread takes None from
\* its stdin ends the thread with None put on the queue; from then on
\* the frames left on stdin stay there and nothing is put on the queue.
\* None is last in the queue, is never given to handler.handle and is
\* never queued for, or run by, the responder.
C30_SentinelEndsTheSession ==
    /\ [](\A p \in Procs :
            /\ \A i \in MarkersQueued(p) : i = Len(queue[p])
            /\ \A i \in HandleEntries(p) : idle[i].msg # StopSentinel)
    /\ [][\A p \in Procs :
            /\ /\ rpc[p] = "reading" /\ stdout[p] # <<>>
               /\ Head(stdout[p]) = StopSentinel
               /\ stdout'[p] = Tail(stdout[p])
               => /\ rpc'[p] = "quit"
                  /\ HandleEntries(p)' = HandleEntries(p)
            /\ rpc[p] \in {"quit", "done"} =>
                  /\ stdout'[p] = stdout[p]
                  /\ Cardinality(HandleEntries(p)') <= Cardinality(HandleEntries(p))
            /\ /\ tpc[p] = "reading" /\ stdin[p] # <<>>
               /\ Head(stdin[p]) = StopSentinel
               /\ stdin'[p] = Tail(stdin[p])
               => /\ tpc'[p] = "done"
                  /\ queue'[p] = Append(queue[p], StopSentinel)
            /\ tpc[p] = "done" =>
                  /\ stdin'[p] = stdin[p]
                  /\ \/ queue'[p] = queue[p]
                     \/ queue[p] # <<>> /\ queue'[p] = Tail(queue[p])
            /\ handled'[p] # handled[p] =>
                  queue[p] # <<>> /\ Head(queue[p]) # StopSentinel
            /\ delivered'[p] # delivered[p] =>
                  /\ idle # <<>> /\ Head(idle).cb = "handle"
                  /\ Head(idle).msg # StopSentinel]_vars

C30_Witness ==
    /\ quit_type[1] = "normal" /\ rpc[1] = "done"
    /\ Len(idle) = 1 /\ Head(idle).cb = "quit"
    /\ stdout[1] = <<SubprocessMessage(2)>>
    /\ delivered[1] = <<1>>

\* the supervisor has spawned p and p is not (any more) its process
Released(p) == p <= nproc /\ process # p

\* C31: every worker process the supervisor has let go of (by a restart,
\* after a clean stop, by shutdown()) and that is still alive exits in
\* the end, whatever its handler is doing.
C31_ReleasedWorkersExit ==
    \A p \in Procs : (Released(p) /\ ps[p] = "alive") ~> (ps[p] # "alive")

\* C32: with pipes that hold PipeCap frames, the stdin of a live worker
\* is emptied again and again (by the handshake or by the pipe thread,
\* even while the main thread is inside a handler method), and so is the
\* stdout of a live worker whose reader thread is reading: a full pipe
\* gets room again and a write that waits for room returns.  No pipe ever
\* holds more than PipeCap frames.
C32_NoBackPressureDeadlock ==
    /\ [](\A p \in Procs :
            Len(stdin[p]) <= PipeCap /\ Len(stdout[p]) <= PipeCap)
    /\ \A p \in Procs : []<>(ps[p] # "alive" \/ stdin[p] = <<>>)
    /\ \A p \in Procs :
          []<>(ps[p] # "alive" \/ stdout[p] = <<>> \/ rpc[p] # "reading")

\* the pipe thread has taken a message from stdin while the main thread
\* is inside a handler method that does not return
C32_Witness ==
    \E p \in Procs :
        /\ ps[p] = "alive" /\ wpc[p] = "stuck" /\ tpc[p] = "reading"
        /\ queue[p] # <<>> /\ stdin[p] = <<>>
        /\ is_running /\ process = p

\* C33: every frame _dump_obj has written starts with a header of exactly
\* 4 bytes, the bytes _load_obj reads as the header, and those 4 bytes
\* unpack to the number of payload bytes that follow, whatever the
\* platform's size of long.
C33_HeaderIsFourBytes ==
    \A i \in 1 .. Len(sent) :
        LET frame == _dump_obj_bytes(sent[i])
            pickle_data == pickle_dumps(sent[i])
        IN /\ Len(frame) - Len(pickle_data) = 4
           /\ struct_unpack(read(frame, 4)) = Len(pickle_data)

\* C34: whenever the control thread is not inside a call (it is inside
\* shutdown() between send_quit and the end of the join; start, restart
\* and the quit callback are single steps), either is_running is true
\* and process and thread are both set, or is_running is false and
\* process and thread are both None.
C34_RunningIffHandlesSet ==
    ctl = "idle" =>
        \/ is_running /\ process # NoProc /\ thread # NoProc
        \/ ~is_running /\ process = NoProc /\ thread = NoProc

C34_Witness ==
    /\ ctl = "idle" /\ ~is_running /\ process = NoProc /\ thread = NoProc
    /\ nproc = 2 /\ n_on_restart = 1 /\ last.op = "shutdown"

\* C35: when the eventloop runs the quit callback of a reader thread, no
\* response that thread has queued is still waiting; and when a restart
\* is made (and on_restart is called), no response of the worker that is
\* replaced is still waiting to be run by the responder.
C35_DeliveredBeforeQuitAndRestart ==
    /\ [][QuitStep => HandleEntries(Head(idle).from) = {}]_vars
    /\ [][n_on_restart' # n_on_restart =>
            HandleEntries(process) = {}]_vars

\* C36: a step in which the reader thread of p takes a response (a frame
\* other than None) from p's stdout leaves the thread in its loop,
\* whatever happens to the response in responder.handle; the loop ends
\* only in a step that takes None or that finds the stream closed or
\* failing, and a restart follows only such an end.
C36_DispatchFailureKeepsReading ==
    [][\A p \in Procs :
          /\ rpc[p] = "reading" /\ stdout[p] # <<>>
          /\ Head(stdout[p]) # StopSentinel
          /\ stdout'[p] = Tail(stdout[p])
          => rpc'[p] = "reading" /\ quit_type'[p] = "None"]_vars

\* subprocess_main of p returned from its except branch: the handshake
\* failed, on_startup was never called
Rejected(p) == wpc[p] = "returned" /\ CallsOf(p, "on_startup") = {}

\* C37: the step in which a worker rejects the handshake leaves the stop
\* sentinel as the last frame of its stdout; the reader thread of such a
\* worker, while it takes frames from the pipe, ends its loop only on the
\* sentinel and with quit_type normal; and when the eventloop runs the
\* quit callback of such a worker no process is started and the
\* supervisor is left not running with process and thread unset.
C37_HandshakeFailureStops ==
    /\ [][\A p \in Procs :
            wpc[p] \in {"setup1", "setup2"} /\ wpc'[p] = "returned"
            => /\ stdout'[p] # <<>>
               /\ stdout'[p][Len(stdout'[p])] = StopSentinel]_vars
    /\ [][\A p \in Procs :
            /\ Rejected(p) /\ rpc[p] = "reading"
            /\ stdout[p] # <<>> /\ stdout'[p] = Tail(stdout[p])
            => /\ rpc'[p] = "quit" <=> Head(stdout[p]) = StopSentinel
               /\ rpc'[p] = "quit" => quit_type'[p] = "normal"]_vars
    /\ [][QuitStep /\ Rejected(Head(idle).from)
            => /\ nproc' = nproc /\ n_on_restart' = n_on_restart
               /\ ~is_running' /\ process' = NoProc /\ thread' = NoProc]_vars

\* the commands on p's stdin that were written before a stop sentinel
\* still on it
CommandsAhead(p) ==
    {i \in 1 .. Len(stdin[p]) :
        /\ stdin[p][i].kind = "SubprocessMessage"
        /\ \E j \in i + 1 .. Len(stdin[p]) : stdin[p][j] = StopSentinel}

\* C38: the stop marker is always the last entry of the worker's queue,
\* entries are added at its end and taken from its front, so on_shutdown
\* is called with no command left in the queue; and the pipe thread puts
\* the marker only when it takes the sentinel from stdin or when no
\* command written before a sentinel is left on stdin: with that, every
\* command written before the sentinel has been dispatched when
\* on_shutdown is called.
C38_GracefulDrain ==
    /\ [](\A p \in Procs :
            /\ \A i \in MarkersQueued(p) : i = Len(queue[p])
            /\ wpc[p] = "on_shutdown" => queue[p] = <<>>)
    /\ [][\A p \in Procs :
            /\ queue'[p] # queue[p] =>
                  \/ queue[p] # <<>> /\ queue'[p] = Tail(queue[p])
                  \/ /\ Len(queue'[p]) = Len(queue[p]) + 1
                     /\ SubSeq(queue'[p], 1, Len(queue[p])) = queue[p]
            /\ Cardinality(MarkersQueued(p))' > Cardinality(MarkersQueued(p))
                  => \/ /\ stdin[p] # <<>> /\ Head(stdin[p]) = StopSentinel
                        /\ stdin'[p] = Tail(stdin[p])
                     \/ CommandsAhead(p) = {}]_vars

\* the places in lifecycle of the calls of cb
LifecycleCalls(cb) == {i \in 1 .. Len(lifecycle) : lifecycle[i].cb = cb}

\* an on_startup call made by start(), not by a restart
StartCalls ==
    {i \in LifecycleCalls("on_startup") :
        i = Len(lifecycle) \/ lifecycle[i + 1].cb # "on_restart"}

\* C39: on_startup has been called exactly once for every process
\* spawned and for no other; every on_restart comes right after the
\* on_startup of the process the restart spawned; on_shutdown is called
\* only by a shutdown() that found the supervisor running, right before
\* its send_quit, which writes the sentinel to the process of that
\* moment unless its pipe is broken; between two calls of on_shutdown
\* there is a start(); and the quit callback of a reader thread, whether
\* it cleans up or restarts, calls no on_shutdown.
C39_ResponderLifecycle ==
    /\ [](/\ n_on_startup = nproc
          /\ n_on_startup = Cardinality(LifecycleCalls("on_startup"))
          /\ n_on_shutdown = Cardinality(LifecycleCalls("on_shutdown"))
          /\ n_on_restart = Cardinality(LifecycleCalls("on_restart"))
          /\ \A p \in Procs :
                Cardinality({i \in LifecycleCalls("on_startup") :
                                lifecycle[i].proc = p})
                    = IF p <= nproc THEN 1 ELSE 0
          /\ \A j \in LifecycleCalls("on_restart") :
                /\ j > 1
                /\ lifecycle[j - 1] =
                      [cb |-> "on_startup", proc |-> lifecycle[j].proc]
          /\ \A i \in LifecycleCalls("on_shutdown") :
                /\ i < Len(lifecycle)
                /\ lifecycle[i + 1] =
                      [cb |-> "send_quit", proc |-> lifecycle[i].proc]
          /\ \A j \in LifecycleCalls("send_quit") :
                j > 1 /\ lifecycle[j - 1].cb = "on_shutdown"
          /\ \A i, j \in LifecycleCalls("on_shutdown") :
                i < j => \E k \in StartCalls : i < k /\ k < j)
    /\ [][n_on_shutdown' # n_on_shutdown
            => /\ ctl = "idle" /\ ctl' = "join"
               /\ is_running /\ calls' = calls + 1
               /\ last'.op = "shutdown"
               /\ n_on_shutdown' = n_on_shutdown + 1
               /\ lifecycle' = lifecycle \o
                     <<[cb |-> "on_shutdown", proc |-> process],
                       [cb |-> "send_quit", proc |-> process]>>
               /\ stdin'[process] =
                     IF BrokenPipe(process) THEN stdin[process]
                     ELSE Append(stdin[process], StopSentinel)]_vars
    /\ [][QuitStep => n_on_shutdown' = n_on_shutdown]_vars

C39_Witness ==
    /\ lifecycle = <<[cb |-> "on_startup", proc |-> 1],
                     [cb |-> "on_startup", proc |-> 2],
                     [cb |-> "on_restart", proc |-> 2],
                     [cb |-> "on_shutdown", proc |-> 2],
                     [cb |-> "send_quit", proc |-> 2]>>
    /\ ctl = "idle"
    /\ ~is_running

====
